---- MODULE Spec2Model ----
(***************************************************************************)
(* Model of st_app.py: the exam store (Exam, Question, Submission, Answer),*)
(* the Create Exam form, the Take Exam submit handler with its grading     *)
(* loop, analyze_answer_with_gemini_vision, and the Admin bulk deletes.    *)
(*                                                                         *)
(* The store variables hold the COMMITTED rows; rows added to an open      *)
(* SQLAlchemy session and not yet committed live in session_new.  One user *)
(* interaction runs to completion before the next one starts (pc).         *)
(***************************************************************************)
EXTENDS Integers, Sequences, FiniteSets, TLC

VARIABLES
    exam,                    \* table 'exam'
    question,                \* table 'question'
    submission,              \* table 'submission'
    answer,                  \* table 'answer'
    uploads,                 \* entries of the UPLOAD_FOLDER directory
    session_state_questions, \* st.session_state.questions (the draft list)
    pc,                      \* "idle" or "grading" (inside the Take Exam loop)
    selected_exam,           \* id of selected_exam during a grading run
    new_submission,          \* id of new_submission during a grading run
    uploaded_files,          \* question id -> uploaded file, during a run
    i,                       \* 1-based position of the grading loop
    total_score,             \* running total of the grading loop
    session_new,             \* Answers added to the session, not committed
    req,                     \* the interaction handled last (widget values)
    msg,                     \* the last message shown to the user
    call                     \* arguments and result of one analyze call

dbVars  == <<exam, question, submission, answer>>
runVars == <<pc, selected_exam, new_submission, uploaded_files, i,
             total_score, session_new>>
vars    == <<exam, question, submission, answer, uploads,
             session_state_questions, pc, selected_exam, new_submission,
             uploaded_files, i, total_score, session_new, req, msg, call>>

----------------------------------------------------------------------------
(* Bounds of the model *)

MaxExams == 1
MaxSubs  == 1
MaxDraft == 2

(* Program constants *)

DefaultPoints == 10
MinPoints     == 1

APOLOGY == "Could not analyze due to an API error."

----------------------------------------------------------------------------
(* Small value sets the inputs are drawn from *)

NULL == <<>>
None == <<>>
MISSING == <<>>

Titles   == {"", "T"}
Names    == {"", "n"}
FileName == "a.png"
Files    == {None, <<FileName>>}

Blank == [text |-> "", answer |-> "", points |-> DefaultPoints]

QInputs ==
    { Blank,
      [text |-> "a", answer |-> "",  points |-> DefaultPoints],
      [text |-> "b", answer |-> "r", points |-> MinPoints] }

NoDraft == <<>>

NoReq == [op |-> "", title |-> "", entries |-> <<>>, missing |-> FALSE,
          fail |-> FALSE]

NoCall == [points |-> 0, resp |-> <<>>, result |-> <<>>]

----------------------------------------------------------------------------
(* Helpers *)

(* A float as the clamp sees it: a number, or NaN, whose comparisons are   *)
(* all false                                                               *)
Num(v) == [nan |-> FALSE, v |-> v]
NaN    == [nan |-> TRUE, v |-> 0]

Less(a, b) == ~a.nan /\ ~b.nan /\ a.v < b.v

(* Python's max(a, b) and min(a, b): b is taken only when it compares      *)
(* greater (smaller) than a                                                *)
Max(a, b) == IF Less(a, b) THEN b ELSE a
Min(a, b) == IF Less(b, a) THEN b ELSE a

(* The number a float stands for in the store; NaN is no number of any     *)
(* range and is given a value below every score                            *)
NotANumber == 0 - (DefaultPoints * DefaultPoints)

FloatValue(x) == IF x.nan THEN NotANumber ELSE x.v

TruthyStr(s)  == s # ""
TruthyFile(f) == f # None

SetMax(S) == CHOOSE x \in S : \A y \in S : y <= x
SetMin(S) == CHOOSE x \in S : \A y \in S : x <= y

NextId(T) == IF T = {} THEN 1 ELSE SetMax({r.id : r \in T}) + 1

RECURSIVE SortById(_)
SortById(T) ==
    IF T = {} THEN <<>>
    ELSE LET m == SetMin({r.id : r \in T})
             r == CHOOSE x \in T : x.id = m
         IN  <<r>> \o SortById(T \ {r})

RECURSIVE SeqSum(_)
SeqSum(s) == IF s = <<>> THEN 0 ELSE Head(s) + SeqSum(Tail(s))

QuestionsOf(eid) == SortById({q \in question : q.exam_id = eid})
AnswersOf(sid)   == SortById({a \in answer : a.submission_id = sid})

----------------------------------------------------------------------------
(* analyze_answer_with_gemini_vision                                       *)
(*                                                                         *)
(* resp is what the Gemini call produced:                                  *)
(*   kind "call_raises"    Image.open or generate_content raised           *)
(*   kind "malformed_json" json.loads raised                               *)
(*   kind "not_object"     the JSON value is not an object (no .get)       *)
(*   kind "object"         a JSON object; a text field is MISSING or <<v>>,*)
(*                         the score is MISSING, <<"num", n>>,             *)
(*                         <<"nan", 0>> (the NaN literal json.loads        *)
(*                         accepts) or <<"nonnumeric", 0>> (a value        *)
(*                         float() rejects, such as null or a list)        *)

Fallback ==
    [raised |-> FALSE, extracted_text |-> "", feedback |-> APOLOGY,
     awarded_score |-> 0]

(* the except clause raising again instead of returning the fallback *)
ExceptReraise(resp) == [Fallback EXCEPT !.raised = TRUE]

(* lines 125-131: the except clause turns any exception of the try block   *)
(* into the fallback result; nothing is raised to the caller               *)
Except(resp) == Fallback

Get(field, default) == IF field = MISSING THEN default ELSE field[1]

(* the lower bound of the clamp left out *)
ClampNoFloor(raw_score, points_for_question) ==
    Min(raw_score, Num(points_for_question))

(* line 118 *)
Clamp(raw_score, points_for_question) ==
    Max(Num(0), Min(raw_score, Num(points_for_question)))

(* only an exception of the API call counts as a failure *)
RaisesOnlyCall(resp) == resp.kind = "call_raises"

(* what makes the try block (lines 110-117) raise *)
Raises(resp) ==
    \/ resp.kind # "object"
    \/ /\ resp.score # MISSING
       /\ resp.score[1] \notin {"num", "nan"}

(* line 117 *)
RawScore(resp) ==
    IF resp.score = MISSING THEN Num(0)
    ELSE IF resp.score[1] = "nan" THEN NaN
    ELSE Num(resp.score[2])

analyze_answer_with_gemini_vision(question_text, image_path, points_for_question, resp) ==
    IF Raises(resp)
    THEN Except(resp)
    ELSE [raised         |-> FALSE,
          extracted_text |-> Get(resp.extracted_text, ""),
          feedback       |-> Get(resp.reasoning, ""),
          awarded_score  |->
              FloatValue(Clamp(RawScore(resp), points_for_question))]

Obj(score, reasoning, extracted_text) ==
    [kind |-> "object", score |-> score, reasoning |-> reasoning,
     extracted_text |-> extracted_text]

NotObj(kind) ==
    [kind |-> kind, score |-> MISSING, reasoning |-> MISSING,
     extracted_text |-> MISSING]

FailureKinds == {"call_raises", "malformed_json", "not_object"}

(* Responses the grading loop is driven with *)
Responses ==
    { NotObj(k) : k \in FailureKinds } \cup
    { Obj(<<"num", 0 - 1>>, <<"ok">>, <<"txt">>),
      Obj(<<"num", 1>>, MISSING, MISSING),
      Obj(<<"num", DefaultPoints + 1>>, <<"ok">>, <<"txt">>),
      Obj(MISSING, <<"ok">>, MISSING),
      Obj(<<"nan", 0>>, <<"ok">>, <<"txt">>),
      Obj(<<"nonnumeric", 0>>, <<"ok">>, <<"txt">>) }

----------------------------------------------------------------------------
(* Initial state: empty store, empty uploads folder or one holding a       *)
(* sub-directory (os.makedirs(..., exist_ok=True) keeps what is there)     *)

SubDir == <<"dir", 0, 0, "old">>

RegularFiles(dir) == {e \in dir : e[1] = "file"}

Init ==
    /\ exam = {}
    /\ question = {}
    /\ submission = {}
    /\ answer = {}
    /\ uploads \in {{}, {SubDir}}
    /\ session_state_questions = NoDraft
    /\ pc = "idle"
    /\ selected_exam = 0
    /\ new_submission = 0
    /\ uploaded_files = <<>>
    /\ i = 0
    /\ total_score = 0
    /\ session_new = <<>>
    /\ req = NoReq
    /\ msg = ""
    /\ call = NoCall

RunIdle ==
    /\ pc' = "idle"
    /\ selected_exam' = 0
    /\ new_submission' = 0
    /\ uploaded_files' = <<>>
    /\ i' = 0
    /\ total_score' = 0
    /\ session_new' = <<>>

----------------------------------------------------------------------------
(* Create Exam page *)

(* lines 144-145: the draft list is created on the first run *)
Draft == IF session_state_questions = NoDraft THEN <<Blank>>
         ELSE session_state_questions

EntryInputs(n) == [1..n -> QInputs]

SaveValid(exam_title, qs) ==
    ~ (~TruthyStr(exam_title) \/ ~(\A k \in 1..Len(qs) : TruthyStr(qs[k].text)))

(* the Questions inserted in reverse order *)
NewQuestionsReversed(eid, qs) ==
    LET base == NextId(question)
    IN  { [id |-> base + Len(qs) - k, exam_id |-> eid,
           question_text |-> qs[k].text,
           correct_answer |-> qs[k].answer,
           points |-> qs[k].points] : k \in 1..Len(qs) }

(* lines 165-171 *)
NewQuestions(eid, qs) ==
    LET base == NextId(question)
    IN  { [id |-> base + k - 1, exam_id |-> eid,
           question_text |-> qs[k].text,
           correct_answer |-> qs[k].answer,
           points |-> qs[k].points] : k \in 1..Len(qs) }

(* "Add Another Question": the widgets' values are stored into the draft,  *)
(* a blank entry is appended, the script reruns                            *)
AddAnotherQuestion(vals) ==
    /\ pc = "idle"
    /\ Len(Draft) < MaxDraft
    /\ session_state_questions' = Append(vals, Blank)
    /\ req' = [NoReq EXCEPT !.op = "AddAnotherQuestion"]
    /\ msg' = ""
    /\ UNCHANGED <<dbVars, uploads, runVars, call>>

(* "Save Exam" *)
SaveExam(exam_title, vals) ==
    /\ pc = "idle"
    /\ req' = [op |-> "SaveExam", title |-> exam_title, entries |-> vals,
               missing |-> (exam_title = "" \/ \E k \in 1..Len(vals) : vals[k].text = ""),
               fail |-> FALSE]
    /\ IF SaveValid(exam_title, vals)
       THEN /\ Cardinality(exam) < MaxExams
            /\ LET eid == NextId(exam)
               IN  /\ exam' = exam \cup {[id |-> eid, title |-> exam_title]}
                   /\ question' = question \cup NewQuestions(eid, vals)
            /\ session_state_questions' = NoDraft
            /\ msg' = "Exam created!"
            /\ UNCHANGED <<submission, answer>>
       ELSE /\ session_state_questions' = vals
            /\ msg' = "Please fill out the exam title and all question fields."
            /\ UNCHANGED dbVars
    /\ UNCHANGED <<uploads, runVars, call>>

----------------------------------------------------------------------------
(* Take Exam page *)

(* line 182: a dict keyed by title keeps the last exam of each title *)
exam_choices(title) ==
    LET same == {e \in exam : e.title = title}
    IN  CHOOSE e \in same : \A o \in same : o.id <= e.id

QuestionIds(eid) == {q.id : q \in {x \in question : x.exam_id = eid}}

TotalPossiblePoints(eid) ==
    SeqSum([k \in 1..Len(QuestionsOf(eid)) |-> QuestionsOf(eid)[k].points])

(* the department left out of the check *)
SubmitValidNoDepartment(files, student_name, matric_number, department) ==
    /\ \A q \in DOMAIN files : TruthyFile(files[q])
    /\ TruthyStr(student_name)
    /\ TruthyStr(matric_number)

(* line 201 *)
SubmitValid(files, student_name, matric_number, department) ==
    /\ \A q \in DOMAIN files : TruthyFile(files[q])
    /\ TruthyStr(student_name)
    /\ TruthyStr(matric_number)
    /\ TruthyStr(department)

(* "Submit All Answers for Grading", up to the first commit (line 208) *)
TakeExamSubmit(title, student_name, matric_number, department, files) ==
    /\ pc = "idle"
    /\ \E e \in exam : e.title = title
    /\ LET sel == exam_choices(title).id
           sid == NextId(submission)
       IN  /\ DOMAIN files = QuestionIds(sel)
           /\ req' = [NoReq EXCEPT
                        !.op = "TakeExamSubmit",
                        !.missing = \/ student_name = ""
                                    \/ matric_number = ""
                                    \/ department = ""
                                    \/ \E q \in QuestionIds(sel) : files[q] = None]
           /\ IF SubmitValid(files, student_name, matric_number, department)
              THEN /\ Cardinality(submission) < MaxSubs
                   /\ submission' = submission \cup
                         {[id |-> sid, exam_id |-> sel,
                           student_name |-> student_name,
                           matric_number |-> matric_number,
                           department |-> department,
                           final_score |-> NULL,
                           total_points |-> TotalPossiblePoints(sel)]}
                   /\ pc' = "grading"
                   /\ selected_exam' = sel
                   /\ new_submission' = sid
                   /\ uploaded_files' = files
                   /\ i' = 1
                   /\ total_score' = 0
                   /\ session_new' = <<>>
                   /\ msg' = "Grading Results"
              ELSE /\ msg' = "Please fill out all student information and upload an answer for every question."
                   /\ UNCHANGED <<submission, runVars>>
    /\ UNCHANGED <<exam, question, answer, uploads, session_state_questions, call>>

(* the running total overwritten instead of added to *)
AccumulateLast(total, awarded_score) == awarded_score

(* line 242 *)
Accumulate(total, awarded_score) == total + awarded_score

image_path(sid, qid, name) == <<"file", sid, qid, name>>

NewAnswer(sid, qid, r) ==
    [submission_id |-> sid, question_id |-> qid,
     extracted_text |-> r.extracted_text,
     awarded_score |-> r.awarded_score, feedback |-> r.feedback]

WithIds(pending, base) ==
    { [id |-> base + k - 1,
       submission_id |-> pending[k].submission_id,
       question_id |-> pending[k].question_id,
       extracted_text |-> pending[k].extracted_text,
       awarded_score |-> pending[k].awarded_score,
       feedback |-> pending[k].feedback] : k \in 1..Len(pending) }

(* a commit after every Answer *)
CommittedPerAnswer(pending) == pending

(* Rows added to a session that is dropped before its commit are not       *)
(* persisted                                                               *)
Uncommitted(pending) == <<>>

(* One iteration of the grading loop (lines 210-242).  save is the outcome *)
(* of writing the image: "ok", or open() raised, or write() raised and     *)
(* left the file behind.  An exception there, or one raised by the grading *)
(* function, leaves the handler: the open session is dropped with its      *)
(* uncommitted Answers.  req.fail records that the image was not saved.    *)
GradeQuestion(resp, save) ==
    /\ pc = "grading"
    /\ i <= Len(QuestionsOf(selected_exam))
    /\ LET q    == QuestionsOf(selected_exam)[i]
           path == image_path(new_submission, q.id, uploaded_files[q.id][1])
           r    == analyze_answer_with_gemini_vision(q.question_text, path,
                                                     q.points, resp)
       IN  /\ uploads' = IF save = "open_raises" THEN uploads
                         ELSE uploads \cup {path}
           /\ IF save = "ok" /\ ~r.raised
              THEN /\ session_new' =
                        Append(session_new, NewAnswer(new_submission, q.id, r))
                   /\ total_score' = Accumulate(total_score, r.awarded_score)
                   /\ i' = i + 1
                   /\ msg' = "Score for this question"
                   /\ req' = [NoReq EXCEPT !.op = "GradeQuestion"]
                   /\ UNCHANGED <<pc, selected_exam, new_submission,
                                  uploaded_files, answer>>
              ELSE /\ RunIdle
                   /\ answer' = answer \cup
                        WithIds(Uncommitted(session_new), NextId(answer))
                   /\ msg' = "Traceback"
                   /\ req' = [NoReq EXCEPT !.op = "GradeQuestion",
                                           !.fail = (save # "ok")]
    /\ UNCHANGED <<exam, question, submission, session_state_questions, call>>

(* After the loop (lines 244-246): final_score is set and the session,     *)
(* holding every Answer of the run, is committed                           *)
Finalize ==
    /\ pc = "grading"
    /\ i > Len(QuestionsOf(selected_exam))
    /\ submission' =
          { IF s.id = new_submission
            THEN [s EXCEPT !.final_score = <<total_score>>]
            ELSE s : s \in submission }
    /\ answer' = answer \cup WithIds(session_new, NextId(answer))
    /\ RunIdle
    /\ msg' = "Final Score"
    /\ req' = [NoReq EXCEPT !.op = "Finalize"]
    /\ UNCHANGED <<exam, question, uploads, session_state_questions, call>>

(* line 260 *)
score_display(sub) ==
    IF sub.final_score # NULL THEN "score" ELSE "Incomplete"

----------------------------------------------------------------------------
(* Admin page: bulk deletes *)

Db == [exam |-> exam, question |-> question, submission |-> submission,
       answer |-> answer]

DeleteAll(db, table) == [db EXCEPT ![table] = {}]

RECURSIVE DeleteTables(_, _)
DeleteTables(db, tables) ==
    IF tables = <<>> THEN db
    ELSE DeleteTables(DeleteAll(db, Head(tables)), Tail(tables))

(* the deletes made before the failure kept *)
RollbackKeepsDeletes(before, tx) == tx

(* session.rollback(): the store is what it was when the session began *)
Rollback(before, tx) == before

(* The body of a "Clear All ..." button.  failAt = 0: nothing raises;      *)
(* failAt = k <= Len(tables): the k-th delete raises; failAt =             *)
(* Len(tables) + 1: commit raises.  The deletes before the failure have    *)
(* run inside the session's transaction.                                   *)
BulkDelete(db, tables, failAt) ==
    IF failAt = 0
    THEN DeleteTables(db, tables)
    ELSE Rollback(db, DeleteTables(db, SubSeq(tables, 1, failAt - 1)))

(* lines 300-301 *)
SubmissionTables == <<"answer", "submission">>

(* Submissions and Answers left to a cascade that Query.delete() never runs *)
ExamTablesOnly == <<"question", "exam">>

(* lines 324-327 *)
ExamTables == <<"answer", "submission", "question", "exam">>

ClearAll(op, tables, failAt, ok, err) ==
    /\ pc = "idle"
    /\ LET after == BulkDelete(Db, tables, failAt)
       IN  /\ exam' = after.exam
           /\ question' = after.question
           /\ submission' = after.submission
           /\ answer' = after.answer
    /\ req' = [NoReq EXCEPT !.op = op, !.fail = (failAt # 0)]
    /\ msg' = IF failAt = 0 THEN ok ELSE err
    /\ UNCHANGED <<uploads, session_state_questions, runVars, call>>

ClearAllSubmissions(failAt) ==
    ClearAll("ClearAllSubmissions", SubmissionTables, failAt,
             "All submissions cleared successfully!",
             "Error clearing submissions")

ClearAllExams(failAt) ==
    ClearAll("ClearAllExams", ExamTables, failAt,
             "All exams and submissions cleared successfully!",
             "Error clearing exams")

(* "Clear Uploads Folder": os.listdir gives the entries in no particular   *)
(* order; the regular files are unlinked one by one.  removed is the set   *)
(* unlinked before an unlink raised (failed = TRUE), and the exception     *)
(* ends the loop.                                                          *)
(* every entry removed, sub-directories too *)
UnlinkEveryEntry(dir, removed, failed) ==
    IF failed THEN dir \ removed ELSE {}

UnlinkLoop(dir, removed, failed) ==
    IF failed THEN dir \ removed ELSE dir \ RegularFiles(dir)

ClearUploadsFolder(removed, failed) ==
    /\ pc = "idle"
    /\ removed \subseteq RegularFiles(uploads)
    /\ failed => removed # RegularFiles(uploads)
    /\ ~failed => removed = RegularFiles(uploads)
    /\ uploads' = UnlinkLoop(uploads, removed, failed)
    /\ req' = [NoReq EXCEPT !.op = "ClearUploadsFolder", !.fail = failed]
    /\ msg' = IF failed THEN "Error clearing uploads folder"
              ELSE "Uploads folder cleared successfully!"
    /\ UNCHANGED <<dbVars, session_state_questions, runVars, call>>

----------------------------------------------------------------------------
(* The application *)

SaveOutcomes == {"ok", "open_raises", "write_raises"}

Next ==
    \/ \E vals \in EntryInputs(Len(Draft)) : AddAnotherQuestion(vals)
    \/ \E t \in Titles, vals \in EntryInputs(Len(Draft)) : SaveExam(t, vals)
    \/ \E t \in Titles, n \in Names, m \in Names, d \in Names :
         \E e \in {x \in exam : x.title = t} :
           \E files \in [QuestionIds(exam_choices(t).id) -> Files] :
             TakeExamSubmit(t, n, m, d, files)
    \/ \E resp \in Responses, save \in SaveOutcomes : GradeQuestion(resp, save)
    \/ Finalize
    \/ \E failAt \in 0..(Len(SubmissionTables) + 1) : ClearAllSubmissions(failAt)
    \/ \E failAt \in 0..(Len(ExamTables) + 1) : ClearAllExams(failAt)
    \/ \E removed \in SUBSET RegularFiles(uploads), failed \in BOOLEAN :
         ClearUploadsFolder(removed, failed)

Spec == Init /\ [][Next]_vars

(* The handler of one interaction runs to its end: the loop takes its next *)
(* iteration and the final commit follows the last one                     *)
FairSpec ==
    /\ Init
    /\ [][Next]_vars
    /\ WF_vars(\E resp \in Responses, save \in SaveOutcomes : GradeQuestion(resp, save))
    /\ WF_vars(Finalize)

----------------------------------------------------------------------------
(* The grading function on its own: every shape of response, applied to    *)
(* every point value                                                       *)

PointsArgs == {MinPoints, MinPoints + 1, DefaultPoints}

RawScores == {0 - 1, 0, 1, MinPoints + 1, MinPoints + 2, DefaultPoints,
              DefaultPoints + 1}

ScoreFields ==
    {MISSING, <<"nan", 0>>, <<"nonnumeric", 0>>} \cup {<<"num", n>> : n \in RawScores}

AllResponses ==
    { NotObj(k) : k \in FailureKinds } \cup
    { Obj(sc, re, tx) : sc \in ScoreFields, re \in {MISSING, <<"ok">>},
                        tx \in {MISSING, <<"txt">>} }

AnalyzeCall(points, resp) ==
    /\ call' = [points |-> points, resp |-> resp,
                result |-> analyze_answer_with_gemini_vision("q", "img", points, resp)]
    /\ UNCHANGED <<dbVars, uploads, session_state_questions, runVars, req, msg>>

AnalyzeNext == \E points \in PointsArgs, resp \in AllResponses : AnalyzeCall(points, resp)

AnalyzeSpec == Init /\ [][AnalyzeNext]_vars

----------------------------------------------------------------------------
(* Properties *)

PendingAndStored == answer \cup WithIds(session_new, NextId(answer))

QuestionById(qid) == CHOOSE q \in question : q.id = qid

(* C1: every Answer of the grading loop, committed or still in the open    *)
(* session, has 0 <= awarded_score <= points of its Question, whatever the *)
(* model returned                                                          *)
C1_ScoreWithinBounds ==
    \A a \in PendingAndStored :
        /\ \E q \in question : q.id = a.question_id
        /\ 0 <= a.awarded_score
        /\ a.awarded_score <= QuestionById(a.question_id).points

(* a stored negative raw score (clamped to 0) next to a raw score above    *)
(* the maximum (clamped to the Question's points)                          *)
C1_Witness ==
    \E a \in answer, b \in answer :
        /\ a.submission_id = b.submission_id
        /\ a.awarded_score = 0 /\ a.feedback = "ok" /\ a.extracted_text = "txt"
        /\ b.feedback = "ok"
        /\ b.awarded_score = QuestionById(b.question_id).points

AnswerScores(sid) ==
    SeqSum([k \in 1..Len(AnswersOf(sid)) |-> AnswersOf(sid)[k].awarded_score])

(* C2: a Submission's total_points is the sum of its Exam's Question       *)
(* points, and a completed Submission's final_score is the sum of its      *)
(* Answers' awarded_score                                                  *)
C2_Totals ==
    \A s \in submission :
        /\ s.total_points = TotalPossiblePoints(s.exam_id)
        /\ s.final_score # NULL => s.final_score[1] = AnswerScores(s.id)

C2_Witness ==
    \E s \in submission :
        /\ s.final_score # NULL
        /\ Len(AnswersOf(s.id)) = 2
        /\ \A k \in 1..2 : AnswersOf(s.id)[k].awarded_score > 0
        /\ s.total_points = DefaultPoints + MinPoints

IsNonNumeric(p) == p.kind = "object" /\ p.score # MISSING /\ p.score[1] = "nonnumeric"

HasMissingField(p) ==
    p.kind = "object" /\
    (p.score = MISSING \/ p.reasoning = MISSING \/ p.extracted_text = MISSING)

IsApology(r) == r.awarded_score = 0 /\ r.feedback = APOLOGY

(* C3 as stated: every failure, a response object with a missing field     *)
(* included, yields score 0 and the apology feedback                       *)
C3_Original ==
    call # NoCall =>
        ((call.resp.kind \in FailureKinds \/ HasMissingField(call.resp))
            => IsApology(call.result))

(* C3 amended: a call that raises, malformed JSON, a non-object JSON value *)
(* or a non-numeric score yields score 0 and the apology feedback without  *)
(* raising; a missing field is no failure: a missing score counts as 0, a  *)
(* missing reasoning gives feedback "", a missing extracted_text gives ""  *)
C3_Amended ==
    call # NoCall =>
        LET p == call.resp
            r == call.result
        IN  /\ ~r.raised
            /\ (p.kind \in FailureKinds \/ IsNonNumeric(p))
                  => IsApology(r) /\ r.extracted_text = ""
            /\ (p.kind = "object" /\ ~IsNonNumeric(p)) =>
                  /\ p.score = MISSING => r.awarded_score = 0
                  /\ r.feedback = (IF p.reasoning = MISSING THEN "" ELSE "ok")
                  /\ r.extracted_text =
                        (IF p.extracted_text = MISSING THEN "" ELSE "txt")

C3_Witness ==
    /\ call # NoCall
    /\ call.resp.kind = "malformed_json"
    /\ IsApology(call.result)

HasAnswerFor(s, q) ==
    \E a \in answer : a.submission_id = s.id /\ a.question_id = q.id

Completed(s) ==
    /\ s.final_score # NULL
    /\ \A q \in {x \in question : x.exam_id = s.exam_id} : HasAnswerFor(s, q)

LastSubmission == CHOOSE s \in submission : \A o \in submission : o.id <= s.id

(* C4: a grading run that has created its Submission ends, and unless      *)
(* saving an uploaded image failed it ends with final_score set and an     *)
(* Answer stored for every Question; an iteration whose image was saved    *)
(* adds its Answer and moves on whatever the AI call did, a failed call    *)
(* giving an Answer with score 0                                           *)
C4_GradingCompletes ==
    /\ [](\A a \in PendingAndStored : a.feedback = APOLOGY => a.awarded_score = 0)
    /\ (pc = "grading") ~>
          (pc = "idle" /\
             \/ (req.op = "GradeQuestion" /\ req.fail)
             \/ (req.op = "Finalize" /\ submission # {} /\ Completed(LastSubmission)))
    /\ [][(req'.op = "GradeQuestion" /\ ~req'.fail) =>
            /\ pc' = "grading"
            /\ i' = i + 1
            /\ Len(session_new') = Len(session_new) + 1]_vars

(* a completed Submission in which one AI call failed and one did not *)
C4_Witness ==
    /\ req.op = "Finalize"
    /\ \E s \in submission :
         /\ Completed(s)
         /\ \E a \in answer, b \in answer :
              /\ a.submission_id = s.id /\ b.submission_id = s.id
              /\ a.feedback = APOLOGY /\ a.awarded_score = 0
              /\ b.feedback # APOLOGY

(* C5: a Save Exam with an empty title or an empty question text changes   *)
(* no Exam and no Question; a Take Exam submit with an empty identity      *)
(* field or a question without an image creates no Submission, no Answer   *)
(* and no uploaded file, and starts no grading run                         *)
C5_NoWriteOnMissingField ==
    [][ /\ (req'.op = "SaveExam" /\ req'.missing) =>
              UNCHANGED <<exam, question>>
        /\ (req'.op = "TakeExamSubmit" /\ req'.missing) =>
              (UNCHANGED <<submission, answer, uploads>> /\ pc' = "idle") ]_vars

C5_Witness ==
    /\ req.op = "TakeExamSubmit"
    /\ req.missing
    /\ exam # {}
    /\ submission = {}
    /\ msg = "Please fill out all student information and upload an answer for every question."

(* C6: a valid Save Exam adds exactly one Exam, with the submitted title,  *)
(* and one Question per draft entry, in the entries' order, with text,     *)
(* reference answer and points as submitted; older rows stay               *)
C6_SavePersistsDraft ==
    [][ (req'.op = "SaveExam" /\ ~req'.missing) =>
          /\ exam \subseteq exam'
          /\ question \subseteq question'
          /\ Cardinality(exam' \ exam) = 1
          /\ \A e \in exam' \ exam :
               /\ e.title = req'.title
               /\ \A q \in question' \ question : q.exam_id = e.id
          /\ Cardinality(question' \ question) = Len(req'.entries)
          /\ \A k \in 1..Len(req'.entries) :
               \E q \in question' \ question :
                  /\ Cardinality({o \in question' \ question : o.id < q.id}) = k - 1
                  /\ q.question_text = req'.entries[k].text
                  /\ q.correct_answer = req'.entries[k].answer
                  /\ q.points = req'.entries[k].points ]_vars

(* an exam saved from a draft that "Add Another Question" had extended *)
C6_Witness ==
    /\ req.op = "SaveExam"
    /\ ~req.missing
    /\ Len(req.entries) = 2
    /\ req.entries[1] # req.entries[2]
    /\ Cardinality(question) = 2
    /\ session_state_questions = NoDraft

IsBulkDelete(op) == op \in {"ClearAllSubmissions", "ClearAllExams"}

GroupEmpty(op, e, q, s, a) ==
    IF op = "ClearAllSubmissions" THEN s = {} /\ a = {}
    ELSE e = {} /\ q = {} /\ s = {} /\ a = {}

(* C7: a bulk delete that fails at a delete or at commit leaves the four   *)
(* tables as they were; a bulk delete never persists a state in which only *)
(* some tables of its group were emptied                                   *)
C7_BulkDeleteAtomic ==
    [][ IsBulkDelete(req'.op) =>
          /\ req'.fail => UNCHANGED dbVars
          /\ \/ UNCHANGED dbVars
             \/ GroupEmpty(req'.op, exam', question', submission', answer') ]_vars

(* a failed Clear All Exams on a store that holds rows in all four tables *)
C7_Witness ==
    /\ req.op = "ClearAllExams"
    /\ req.fail
    /\ exam # {} /\ question # {} /\ submission # {} /\ answer # {}

(* C8 as stated: a failed Clear Uploads Folder leaves the folder as it     *)
(* was, a successful one removes every regular file                        *)
C8_Original ==
    [][ req'.op = "ClearUploadsFolder" =>
          IF req'.fail THEN uploads' = uploads
          ELSE RegularFiles(uploads') = {} ]_vars

(* C8 amended: Clear Uploads Folder only removes regular files; when an    *)
(* unlink fails the files unlinked before it stay removed and at least the *)
(* failing file stays; when none fails no regular file stays               *)
C8_Amended ==
    [][ req'.op = "ClearUploadsFolder" =>
          /\ uploads' \subseteq uploads
          /\ uploads \ uploads' \subseteq RegularFiles(uploads)
          /\ req'.fail => RegularFiles(uploads') # {}
          /\ ~req'.fail => RegularFiles(uploads') = {} ]_vars

(* a failed clear after which one image of a graded Submission is gone and *)
(* the other is still there                                                *)
C8_Witness ==
    /\ req.op = "ClearUploadsFolder"
    /\ req.fail
    /\ \E a \in answer, b \in answer :
         /\ a.submission_id = b.submission_id
         /\ image_path(a.submission_id, a.question_id, FileName) \in uploads
         /\ image_path(b.submission_id, b.question_id, FileName) \notin uploads

AnswersFor(s, q) ==
    {a \in answer : a.submission_id = s.id /\ a.question_id = q.id}

(* C9: in the committed store a Submission with a final_score has exactly  *)
(* one Answer per Question of its Exam, a Submission without one has no    *)
(* Answer at all, and a run that an exception ended leaves its Submission  *)
(* with final_score null (shown as "Incomplete")                           *)
C9_FinalOnlyWhenAllAnswered ==
    /\ \A s \in submission :
         /\ s.final_score # NULL =>
               \A q \in {x \in question : x.exam_id = s.exam_id} :
                  Cardinality(AnswersFor(s, q)) = 1
         /\ s.final_score = NULL =>
               {a \in answer : a.submission_id = s.id} = {}
    /\ (req.op = "GradeQuestion" /\ pc = "idle") =>
         /\ submission # {}
         /\ LastSubmission.final_score = NULL
         /\ score_display(LastSubmission) = "Incomplete"

(* a run ended by a failed image save after an earlier Question of the     *)
(* same Submission had been graded                                         *)
C9_Witness ==
    /\ req.op = "GradeQuestion"
    /\ req.fail
    /\ pc = "idle"
    /\ answer = {}
    /\ \E s \in submission :
         /\ s.final_score = NULL
         /\ Cardinality({e \in uploads : e[1] = "file" /\ e[2] = s.id}) = 1
         /\ Cardinality({x \in question : x.exam_id = s.exam_id}) = 2

NoOrphan ==
    /\ \A q \in question : \E e \in exam : e.id = q.exam_id
    /\ \A s \in submission : \E e \in exam : e.id = s.exam_id
    /\ \A a \in answer :
         \E s \in submission :
            /\ s.id = a.submission_id
            /\ \E q \in question : q.id = a.question_id /\ q.exam_id = s.exam_id

(* C10: the committed store never holds an orphan row; a successful Clear  *)
(* All Submissions leaves no Submission and no Answer and changes no Exam  *)
(* or Question; a successful Clear All Exams leaves the four tables empty  *)
C10_NoOrphanRows ==
    /\ [](NoOrphan)
    /\ []((req.op = "ClearAllSubmissions" /\ ~req.fail) =>
            (submission = {} /\ answer = {}))
    /\ []((req.op = "ClearAllExams" /\ ~req.fail) =>
            (exam = {} /\ question = {} /\ submission = {} /\ answer = {}))
    /\ [][req'.op = "ClearAllSubmissions" => UNCHANGED <<exam, question>>]_vars

(* a successful Clear All Submissions after a graded Submission, with the  *)
(* exam still there                                                        *)
C10_Witness ==
    /\ req.op = "ClearAllSubmissions"
    /\ ~req.fail
    /\ exam # {} /\ question # {}
    /\ RegularFiles(uploads) # {}

====
